---------------------------- MODULE Spec2Model ----------------------------
(***************************************************************************)
(* A model of the scripts of the repository: the YouTube transcript        *)
(* question-answering flow of youtube.py (one Streamlit script run per     *)
(* question, re-run in the same process on every interaction) and the      *)
(* start-up of ATS.py.                                                     *)
(*                                                                         *)
(* Python strings are sequences of one-character strings, so that          *)
(* str.lower, "x in s", str.strip, re.search and "sep".join are computed   *)
(* as the interpreter computes them.                                       *)
(***************************************************************************)
EXTENDS Integers, Sequences, FiniteSets, TLC

(***************************************************************************)
(* Bounds of the model.                                                    *)
(***************************************************************************)
\* longest manual transcript the user pastes
MaxLen == 2
\* script runs (Streamlit re-runs) of one process
MaxRuns == 2
\* largest coordinate of an embedding vector
MaxCoord == 1
\* most chunks of an index queried on its own
MaxChunks == 5
\* longest transcript split on its own
MaxText == 4
\* most exchanges of a chat
MaxTurns == 3
\* largest small chunk_size a transcript is split with on its own
MaxSize == 3

(***************************************************************************)
(* Python values.                                                          *)
(***************************************************************************)
\* Python's None where a string is expected: no one-character sequence
NoneVal == <<"None">>

\* bool(x) of an optional string
Truthy(s) == s # NoneVal /\ s # <<>>

UpperChars == <<"A","B","C","D","E","F","G","H","I","J","K","L","M","N","O","P","Q","R","S","T","U","V","W","X","Y","Z">>

LowerChars == <<"a","b","c","d","e","f","g","h","i","j","k","l","m","n","o","p","q","r","s","t","u","v","w","x","y","z">>

Digits == <<"0","1","2","3","4","5","6","7","8","9">>

Range(s) == {s[i] : i \in DOMAIN s}

LowerChar(c) ==
    IF c \in Range(UpperChars)
    THEN LowerChars[CHOOSE i \in DOMAIN UpperChars : UpperChars[i] = c]
    ELSE c

\* str.lower()
Lower(s) == [i \in DOMAIN s |-> LowerChar(s[i])]

\* sub in s
Contains(sub, s) ==
    \E i \in 1..(Len(s) - Len(sub) + 1) : SubSeq(s, i, i + Len(sub) - 1) = sub

Whitespace == {" ", "\n", "\t", "\r"}

\* str.strip()
Strip(s) ==
    LET keep == {i \in DOMAIN s : s[i] \notin Whitespace}
    IN  IF keep = {} THEN <<>>
        ELSE LET lo == CHOOSE i \in keep : \A j \in keep : i <= j
                 hi == CHOOSE i \in keep : \A j \in keep : j <= i
             IN  SubSeq(s, lo, hi)

RECURSIVE Join(_, _)
\* sep.join(parts)
Join(sep, parts) ==
    IF parts = <<>> THEN <<>>
    ELSE IF Len(parts) = 1 THEN parts[1]
    ELSE parts[1] \o sep \o Join(sep, Tail(parts))

RECURSIVE Str(_)
\* the text as it is displayed: f"...{error_msg}"
Str(s) == IF s = <<>> THEN "" ELSE s[1] \o Str(Tail(s))

(***************************************************************************)
(* youtube.py: the pure helpers.                                           *)
(***************************************************************************)
\* the {11} of the pattern of extract_video_id
IdLen == 11

\* the character class [0-9A-Za-z_-]
TokenChars == Range(Digits) \cup Range(UpperChars) \cup Range(LowerChars) \cup {"_", "-"}

\* the length of (?:v=|\/) matched at position i of url, 0 when neither matches
LeadAt(url, i) ==
    IF i + 1 <= Len(url) /\ url[i] = "v" /\ url[i + 1] = "=" THEN 2
    ELSE IF url[i] = "/" THEN 1
    ELSE 0

\* whether the pattern (?:v=|\/)([0-9A-Za-z_-]{11}).* matches at position i
MatchAt(url, i) ==
    LET p == LeadAt(url, i)
    IN  /\ p > 0
        /\ i + p + IdLen - 1 <= Len(url)
        /\ \A j \in (i + p)..(i + p + IdLen - 1) : url[j] \in TokenChars

\* re.search finds the leftmost match; group(1) is returned, else None
extract_video_id(url) ==
    LET hits == {i \in DOMAIN url : MatchAt(url, i)}
    IN  IF hits = {} THEN NoneVal
        ELSE LET i == CHOOSE h \in hits : \A g \in hits : h <= g
             IN  SubSeq(url, i + LeadAt(url, i), i + LeadAt(url, i) + IdLen - 1)

\* a variant that joins the chunks with a single newline
format_docs_one_newline(retrieved_docs) == Join(<<"\n">>, retrieved_docs)

\* "\n\n".join(doc.page_content for doc in retrieved_docs)
format_docs(retrieved_docs) == Join(<<"\n", "\n">>, retrieved_docs)

RECURSIVE SplitOn(_, _)
\* str.split(c) for a one-character separator
SplitOn(s, c) ==
    LET at == {i \in DOMAIN s : s[i] = c}
    IN  IF at = {} THEN <<s>>
        ELSE LET i == CHOOSE h \in at : \A g \in at : h <= g
             IN  <<SubSeq(s, 1, i - 1)>> \o SplitOn(SubSeq(s, i + 1, Len(s)), c)

RECURSIVE SelectNonEmpty(_)
SelectNonEmpty(parts) ==
    IF parts = <<>> THEN <<>>
    ELSE IF parts[1] = <<>> THEN SelectNonEmpty(Tail(parts))
    ELSE <<parts[1]>> \o SelectNonEmpty(Tail(parts))

HttpPrefix == <<"h","t","t","p",":","/","/">>

\* the answers of the proxy-list service: the request raises, or it returns
\* a status code and a body
ProxyResponses ==
    { [raised |-> TRUE,  status_code |-> 0,   text |-> <<>>],
      [raised |-> FALSE, status_code |-> 503, text |-> <<>>],
      [raised |-> FALSE, status_code |-> 200, text |-> <<"\n">>],
      [raised |-> FALSE, status_code |-> 200, text |-> <<"p","1","\n","p","2","\n">>] }

\* no request made: requests.get of get_free_proxies has not been called
NoResponse == [raised |-> FALSE, status_code |-> 0, text |-> <<>>]

\* get_free_proxies: the list of the body's lines, [] on any failure
get_free_proxies(response) ==
    IF ~response.raised /\ response.status_code = 200
    THEN LET ps == SelectNonEmpty(SplitOn(Strip(response.text), "\n"))
         IN  [i \in DOMAIN ps |-> HttpPrefix \o ps[i]]
    ELSE <<>>

(***************************************************************************)
(* Exceptions: the class, str(e), and the condition of the remote service  *)
(* that raised it (what really happened, which the code never sees).       *)
(***************************************************************************)
NoExc == [type |-> "none", msg |-> <<>>, cause |-> "none"]

MsgSubtitlesDisabled == <<"S","u","b","t","i","t","l","e","s"," ","a","r","e"," ","d","i","s","a","b","l","e","d">>

MsgNoTranscriptFound == <<"N","o"," ","t","r","a","n","s","c","r","i","p","t","s"," ","w","e","r","e"," ","f","o","u","n","d">>

MsgIpBlocked == <<"Y","o","u","T","u","b","e"," ","i","s"," ","b","l","o","c","k","i","n","g"," ","r","e","q","u","e","s","t","s"," ","f","r","o","m"," ","y","o","u","r"," ","I","P">>

MsgConnection == <<"C","o","n","n","e","c","t","i","o","n"," ","r","e","f","u","s","e","d">>

MsgQuota == <<"q","u","o","t","a"," ","e","x","c","e","e","d","e","d">>

\* what YouTubeTranscriptApi.get_transcript may raise (youtube_transcript_api
\* words its errors so; NoTranscriptFound is the error of a video that has
\* no caption track in the requested language)
CaptionFailures ==
    { [type |-> "TranscriptsDisabled", msg |-> MsgSubtitlesDisabled, cause |-> "disabled"],
      [type |-> "NoTranscriptFound",   msg |-> MsgNoTranscriptFound, cause |-> "no_captions"],
      [type |-> "RequestBlocked",      msg |-> MsgIpBlocked,         cause |-> "blocked"],
      [type |-> "ConnectionError",     msg |-> MsgConnection,        cause |-> "network"],
      [type |-> "HTTPError",           msg |-> MsgQuota,             cause |-> "quota"] }

\* the caption tracks the service may return: lists of fragments' texts
CaptionTracks ==
    { <<>>, << <<" ">> >>, << <<"a">> >>, << <<"a">>, <<"b">> >> }

MsgResourceExhausted == <<"4","2","9"," ","R","e","s","o","u","r","c","e","E","x","h","a","u","s","t","e","d",":"," ","q","u","o","t","a"," ","e","x","c","e","e","d","e","d">>

MsgInvalidArgument == <<"4","0","0"," ","I","n","v","a","l","i","d","A","r","g","u","m","e","n","t",":"," ","A","P","I"," ","k","e","y"," ","n","o","t"," ","v","a","l","i","d">>

\* what the embedding and generation services may raise
GeminiFailures ==
    { [type |-> "ResourceExhausted", msg |-> MsgResourceExhausted, cause |-> "quota"],
      [type |-> "InvalidArgument",   msg |-> MsgInvalidArgument,   cause |-> "bad_key"] }

MsgBlockingThisIp == <<"Y","o","u","T","u","b","e"," ","i","s"," ","b","l","o","c","k","i","n","g"," ","r","e","q","u","e","s","t","s"," ","f","r","o","m"," ","t","h","i","s"," ","I","P","."," ","T","r","y"," ","u","s","i","n","g"," ","a"," ","p","r","o","x","y"," ","o","r"," ","d","i","f","f","e","r","e","n","t"," ","n","e","t","w","o","r","k",".">>

MsgDisabledForVideo == <<"T","r","a","n","s","c","r","i","p","t"," ","i","s"," ","d","i","s","a","b","l","e","d"," ","f","o","r"," ","t","h","i","s"," ","v","i","d","e","o",".">>

MsgFailedAfterAttempts == <<"F","a","i","l","e","d"," ","t","o"," ","r","e","t","r","i","e","v","e"," ","t","r","a","n","s","c","r","i","p","t"," ","a","f","t","e","r"," ","m","u","l","t","i","p","l","e"," ","a","t","t","e","m","p","t","s",".">>

MsgErrorProcessing == <<"E","r","r","o","r"," ","p","r","o","c","e","s","s","i","n","g"," ","t","r","a","n","s","c","r","i","p","t",":"," ">>

MsgListIndex == <<"l","i","s","t"," ","i","n","d","e","x"," ","o","u","t"," ","o","f"," ","r","a","n","g","e">>

\* "blocked" in error_msg.lower() or "ip" in error_msg.lower()
IsBlockedMsg(error_msg) ==
    \/ Contains(<<"b","l","o","c","k","e","d">>, Lower(error_msg))
    \/ Contains(<<"i","p">>, Lower(error_msg))

\* "quota" in error_msg.lower()
IsQuotaMsg(error_msg) == Contains(<<"q","u","o","t","a">>, Lower(error_msg))

(***************************************************************************)
(* The Chunker: RecursiveCharacterTextSplitter(chunk_size, chunk_overlap)  *)
(* with its defaults (separators "\n\n", "\n", " ", ""; the separator kept *)
(* at the start of the piece that follows it; chunks stripped).            *)
(***************************************************************************)
\* chunk_size=1000 of process_transcript_and_answer
ChunkSize == 1000

\* chunk_overlap=200 of process_transcript_and_answer
ChunkOverlap == 200

Separators == << <<"\n", "\n">>, <<"\n">>, <<" ">>, <<>> >>

\* the positions where sep occurs in text
Occurrences(text, sep) ==
    {i \in 1..(Len(text) - Len(sep) + 1) : SubSeq(text, i, i + Len(sep) - 1) = sep}

RECURSIVE SplitKeep(_, _, _)
\* re.split("(sep)", text) regrouped: each separator starts the next piece
SplitKeep(text, sep, lead) ==
    LET at == Occurrences(text, sep)
    IN  IF at = {} THEN <<lead \o text>>
        ELSE LET i == CHOOSE h \in at : \A g \in at : h <= g
             IN  <<lead \o SubSeq(text, 1, i - 1)>>
                 \o SplitKeep(SubSeq(text, i + Len(sep), Len(text)), sep, sep)

\* _split_text_with_regex(text, separator, keep_separator=True)
split_text_with_regex(text, separator) ==
    SelectNonEmpty(IF separator # <<>>
                   THEN SplitKeep(text, separator, <<>>)
                   ELSE [i \in DOMAIN text |-> <<text[i]>>])

\* _join_docs(docs, ""): the pieces joined and stripped; None is the empty result
join_docs(docs) == Strip(Join(<<>>, docs))

RECURSIVE TotalLen(_)
TotalLen(docs) == IF docs = <<>> THEN 0 ELSE Len(docs[1]) + TotalLen(Tail(docs))

RECURSIVE DropWhile(_, _, _, _)
\* the while loop of _merge_splits: pieces leave the window from the left until
\* no more than the overlap is kept and the next piece fits
DropWhile(current_doc, len, chunk_size, chunk_overlap) ==
    LET total == TotalLen(current_doc)
    IN  IF total > chunk_overlap \/ (total + len > chunk_size /\ total > 0)
        THEN DropWhile(Tail(current_doc), len, chunk_size, chunk_overlap)
        ELSE current_doc

RECURSIVE MergeFrom(_, _, _, _, _)
\* _merge_splits(splits, ""): the for loop from split i on, docs and
\* current_doc being what the loop has built so far
MergeFrom(splits, i, docs, current_doc, size) ==
    IF i > Len(splits)
    THEN IF join_docs(current_doc) # <<>> THEN Append(docs, join_docs(current_doc)) ELSE docs
    ELSE LET d == splits[i]
             over == TotalLen(current_doc) + Len(d) > size.chunk_size
             flush == over /\ current_doc # <<>>
             docs1 == IF flush /\ join_docs(current_doc) # <<>>
                      THEN Append(docs, join_docs(current_doc)) ELSE docs
             cur1 == IF flush
                     THEN DropWhile(current_doc, Len(d), size.chunk_size, size.chunk_overlap)
                     ELSE current_doc
         IN  MergeFrom(splits, i + 1, docs1, Append(cur1, d), size)

merge_splits(splits, size) == MergeFrom(splits, 1, <<>>, <<>>, size)

\* the separator _split_text picks: the first of the list found in the text
\* ("" is always found), as its index in the list
PickSeparator(text, separators) ==
    CHOOSE i \in DOMAIN separators :
        /\ separators[i] = <<>> \/ Occurrences(text, separators[i]) # {}
        /\ \A j \in 1..(i - 1) : separators[j] # <<>> /\ Occurrences(text, separators[j]) = {}

RECURSIVE split_text(_, _, _)
RECURSIVE SplitLoop(_, _, _, _, _, _)
\* the for loop of _split_text over the splits, from split i on
SplitLoop(splits, i, good_splits, final_chunks, new_separators, size) ==
    IF i > Len(splits)
    THEN IF good_splits # <<>> THEN final_chunks \o merge_splits(good_splits, size)
         ELSE final_chunks
    ELSE LET s == splits[i]
         IN  IF Len(s) < size.chunk_size
             THEN SplitLoop(splits, i + 1, Append(good_splits, s), final_chunks, new_separators, size)
             ELSE LET flushed == IF good_splits # <<>>
                                 THEN final_chunks \o merge_splits(good_splits, size)
                                 ELSE final_chunks
                      here == IF new_separators = <<>> THEN <<s>>
                              ELSE split_text(s, new_separators, size)
                  IN  SplitLoop(splits, i + 1, <<>>, flushed \o here, new_separators, size)

\* RecursiveCharacterTextSplitter._split_text(text, separators)
split_text(text, separators, size) ==
    LET k == PickSeparator(text, separators)
        separator == separators[k]
        new_separators == IF separator = <<>> THEN <<>>
                          ELSE SubSeq(separators, k + 1, Len(separators))
    IN  SplitLoop(split_text_with_regex(text, separator), 1, <<>>, <<>>, new_separators, size)

\* splitter.create_documents([transcript_text]): the chunks' page_content
create_documents(text, chunk_size, chunk_overlap) ==
    split_text(text, Separators, [chunk_size |-> chunk_size, chunk_overlap |-> chunk_overlap])

(***************************************************************************)
(* The Similarity Index: FAISS.from_documents (a flat L2 index) and the    *)
(* retriever's similarity search.                                          *)
(***************************************************************************)
\* search_kwargs={"k": 4}
K == 4

RECURSIVE Dist2(_, _)
\* the squared L2 distance of two vectors
Dist2(u, v) ==
    IF u = <<>> THEN 0
    ELSE (u[1] - v[1]) * (u[1] - v[1]) + Dist2(Tail(u), Tail(v))

\* FAISS.from_documents(chunks, embeddings): a new index of (chunk, vector) pairs
from_documents(docs, vecs) ==
    [i \in DOMAIN docs |-> [chunk |-> docs[i], vector |-> vecs[i]]]

\* the place of entry i among the entries of the index, nearest to v first,
\* entries at the same distance in the order they were added
RankOf(index, v, i) ==
    1 + Cardinality({j \in DOMAIN index :
            \/ Dist2(index[j].vector, v) < Dist2(index[i].vector, v)
            \/ Dist2(index[j].vector, v) = Dist2(index[i].vector, v) /\ j < i})

\* a variant that returns the first entries of the index, unsorted
search_first_entries(index, v, k) ==
    LET n == IF k < Len(index) THEN k ELSE Len(index)
    IN  [r \in 1..n |-> r]

\* index.search(v, k): the ids of the k nearest entries (all of them when the
\* index holds fewer than k)
search(index, v, k) ==
    LET n == IF k < Len(index) THEN k ELSE Len(index)
    IN  [r \in 1..n |-> CHOOSE i \in DOMAIN index : RankOf(index, v, i) = r]

\* retriever.invoke: similarity_search_by_vector(v, k), the chunks of the ids
similarity_search(index, v, k) ==
    LET ids == search(index, v, k)
    IN  [r \in DOMAIN ids |-> index[ids[r]].chunk]

(***************************************************************************)
(* The prompt of process_transcript_and_answer.                            *)
(***************************************************************************)
TemplateHead == <<"\n"," "," "," "," "," "," "," "," "," "," "," "," ","Y","o","u"," ","a","r","e"," ","a"," ","h","e","l","p","f","u","l"," ","a","s","s","i","s","t","a","n","t",".","\n"," "," "," "," "," "," "," "," "," "," "," "," ","A","n","s","w","e","r"," ","O","N","L","Y"," ","f","r","o","m"," ","t","h","e"," ","p","r","o","v","i","d","e","d"," ","t","r","a","n","s","c","r","i","p","t"," ","c","o","n","t","e","x","t",".","\n"," "," "," "," "," "," "," "," "," "," "," "," ","I","f"," ","t","h","e"," ","c","o","n","t","e","x","t"," ","i","s"," ","i","n","s","u","f","f","i","c","i","e","n","t",","," ","j","u","s","t"," ","s","a","y"," ","y","o","u"," ","d","o","n","'","t"," ","k","n","o","w",".","\n","\n"," "," "," "," "," "," "," "," "," "," "," "," ">>

TemplateMid == <<"\n"," "," "," "," "," "," "," "," "," "," "," "," ","Q","u","e","s","t","i","o","n",":"," ">>

TemplateTail == <<"\n"," "," "," "," "," "," "," "," "," "," "," "," ">>

\* prompt.format(context=..., question=...)
render_prompt(context, q) == TemplateHead \o context \o TemplateMid \o q \o TemplateTail

(***************************************************************************)
(* The inputs of a run.                                                    *)
(***************************************************************************)
\* st.slider("Retry Attempts", min_value=1, max_value=5, value=3)
MinRetry == 1

MaxRetry == 5

UrlWatch == <<"h","t","t","p","s",":","/","/","w","w","w",".","y","o","u","t","u","b","e",".","c","o","m","/","w","a","t","c","h","?","v","=">>

UrlShort == <<"h","t","t","p","s",":","/","/","y","o","u","t","u",".","b","e","/">>

IdRick == <<"d","Q","w","4","w","9","W","g","X","c","Q">>

\* what the user may type into "Enter YouTube Video URL"
VideoUrls == { <<>>, <<"n","o","t"," ","a"," ","l","i","n","k">>, UrlWatch \o IdRick, UrlShort \o IdRick }

\* the strings over " " and "a" of length <= n
TextsUpTo(n) == UNION {[1..m -> {" ", "a"}] : m \in 0..n}

\* what the user may paste into the transcript area
ManualTranscripts == TextsUpTo(MaxLen)

\* what the user may type into "Enter your question"
Questions == { <<>>, <<"q","?">> }

\* the embedding vectors the embedding service may return
Vectors == { <<x>> : x \in 0..MaxCoord }

\* the completions the generation service may return
Answers == { <<"y","e","s">> }

VARIABLES
    script,             \* the script this process runs
    GOOGLE_API_KEY,     \* os.getenv("GOOGLE_API_KEY"): NoneVal when absent
    environ,            \* os.environ: the proxy settings of the process
    pc,                 \* where the script run is
    runs,               \* the script runs of this process so far
    shown,              \* what the run has displayed (st.error, st.info, ...)
    use_proxy, retry_attempts, input_method, video_url, manual_transcript, question,
    video_id, transcript_text,
    proxy_response,     \* what requests.get of get_free_proxies returned or raised
    proxies, attempt, transcript_list, exc,     \* get_transcript_with_retry
    splitter,           \* the text splitter's chunk_size and chunk_overlap
    chunks, vectors, vector_store, search_kwargs, query_vector, retrieved, prompt, answer,
    heap,               \* every index instance built so far, by identity
    flow,               \* the state of the flow of the question
    calls,              \* how often this run called each component
    failed_fetches,     \* the runs of this process whose automated fetch failed
    ats,                \* ATS.py: the widgets' values, pdf_data and response of the run
    chat                \* chatbot.py: chat_history, user_input and the model's calls

inputVars == <<use_proxy, retry_attempts, input_method, video_url, manual_transcript, question>>

acquireVars == <<video_id, transcript_text, proxy_response, proxies, attempt, transcript_list, exc>>

ragVars == <<splitter, chunks, vectors, vector_store, search_kwargs, query_vector, retrieved, prompt,
            answer>>

ytVars == <<inputVars, acquireVars, ragVars, heap, flow, failed_fetches>>

vars == <<script, GOOGLE_API_KEY, environ, pc, runs, shown, ytVars, calls, ats, chat>>

NoCalls ==
    [extract_video_id |-> 0, get_free_proxies |-> 0, get_transcript |-> 0, backoff_sleep |-> 0,
     splitter |-> 0, embedder |-> 0, index_build |-> 0, index_query |-> 0, llm |-> 0]

Called(c, name) == [c EXCEPT ![name] = @ + 1]

\* no splitter: before RecursiveCharacterTextSplitter(...) is constructed
NoSplitter == [chunk_size |-> 0, chunk_overlap |-> 0]

\* chatbot.py before its loop: chat_history = []
FreshChat ==
    [chat_history |-> <<>>, user_input |-> NoneVal, invoked |-> <<>>, result |-> NoneVal,
     printed |-> <<>>]

\* no index: vector_store before FAISS.from_documents
NoIndex == 0

\* the state of a script run that has not begun
FreshRun ==
    /\ shown = <<>>
    /\ use_proxy = FALSE /\ retry_attempts = MinRetry /\ input_method = "YouTube URL"
    /\ video_url = NoneVal /\ manual_transcript = NoneVal /\ question = <<>>
    /\ video_id = NoneVal /\ transcript_text = NoneVal
    /\ proxy_response = NoResponse
    /\ proxies = <<>> /\ attempt = 0 /\ transcript_list = <<>> /\ exc = NoExc
    /\ splitter = NoSplitter
    /\ chunks = <<>> /\ vectors = <<>> /\ vector_store = NoIndex /\ search_kwargs = [k |-> 0]
    /\ query_vector = <<>>
    /\ retrieved = <<>> /\ prompt = <<>> /\ answer = NoneVal
    /\ flow = "Idle" /\ calls = NoCalls

\* no PDF data: None
NoPdf == [type |-> "none", content |-> <<>>]

\* no file in the uploader: None
NoFile == [name |-> "none", readable |-> FALSE, text |-> <<>>]

\* ATS.py before its widgets are drawn
FreshAts(cloud) ==
    [cloud |-> cloud, input_text |-> <<>>, uploaded_file |-> NoFile, pressed |-> "none",
     pdf_data |-> NoPdf, exc |-> NoExc, response |-> "none"]

Init ==
    /\ script \in {"youtube.py", "ATS.py"}
    /\ GOOGLE_API_KEY \in {NoneVal, <<"k","e","y">>}
    /\ environ = [HTTP_PROXY |-> NoneVal, HTTPS_PROXY |-> NoneVal]
    /\ pc = "start"
    /\ runs = 1
    /\ heap = <<>>
    /\ failed_fetches = 0
    /\ \E cloud \in (IF script = "ATS.py" THEN BOOLEAN ELSE {FALSE}) : ats = FreshAts(cloud)
    /\ chat = FreshChat
    /\ FreshRun

(***************************************************************************)
(* youtube.py, one script run.                                             *)
(***************************************************************************)
\* a variant of lines 17-40 without st.stop(): the error is shown and the
\* script goes on
YtStartNoStop ==
    /\ script = "youtube.py" /\ pc = "start"
    /\ shown' = IF ~Truthy(GOOGLE_API_KEY)
                THEN shown \o <<"error: GOOGLE_API_KEY not found", "markdown: how to fix">>
                ELSE shown
    /\ pc' = "widgets"
    /\ UNCHANGED <<script, chat, GOOGLE_API_KEY, ats, environ, runs, inputVars, acquireVars, ragVars,
                   heap, flow, calls, failed_fetches>>

\* lines 17-40: the key is read and validated; st.stop() ends the run
YtStart ==
    /\ script = "youtube.py" /\ pc = "start"
    /\ IF ~Truthy(GOOGLE_API_KEY)
       THEN /\ shown' = shown \o <<"error: GOOGLE_API_KEY not found", "markdown: how to fix">>
            /\ pc' = "stopped"
       ELSE /\ shown' = shown
            /\ pc' = "widgets"
    /\ UNCHANGED <<script, chat, GOOGLE_API_KEY, ats, environ, runs, inputVars, acquireVars, ragVars,
                   heap, flow, calls, failed_fetches>>

\* lines 42-87: the widgets are drawn and return what the user has entered
YtWidgets ==
    /\ script = "youtube.py" /\ pc = "widgets"
    /\ use_proxy' \in BOOLEAN
    /\ retry_attempts' \in MinRetry..MaxRetry
    /\ input_method' \in {"YouTube URL", "Manual Transcript"}
    /\ IF input_method' = "YouTube URL"
       THEN video_url' \in VideoUrls /\ manual_transcript' = NoneVal
       ELSE video_url' = NoneVal /\ manual_transcript' \in ManualTranscripts
    /\ question' \in Questions
    /\ pc' = "main"
    /\ UNCHANGED <<script, chat, GOOGLE_API_KEY, ats, environ, runs, shown, acquireVars, ragVars,
                   heap, flow, calls, failed_fetches>>

\* a variant of line 242 that tidies the pasted text: manual_transcript.strip()
manual_text_stripped(pasted) == Strip(pasted)

\* line 242: transcript_text = manual_transcript
manual_text(pasted) == pasted

\* a variant of line 185 that forgets the question
main_guard_no_question(url, pasted, q) == Truthy(url) \/ Truthy(pasted)

\* line 185: (video_url or manual_transcript) and question
main_guard(url, pasted, q) == (Truthy(url) \/ Truthy(pasted)) /\ Truthy(q)

\* lines 185-193 and 237-242: the guard of the main logic and the input checks
YtMain ==
    /\ script = "youtube.py" /\ pc = "main"
    /\ IF ~main_guard(video_url, manual_transcript, question)
       THEN /\ pc' = "done"
            /\ UNCHANGED <<shown, video_id, transcript_text, flow, calls>>
       ELSE IF input_method = "YouTube URL"
       THEN /\ video_id' = extract_video_id(video_url)
            /\ calls' = Called(calls, "extract_video_id")
            /\ transcript_text' = NoneVal
            /\ IF ~Truthy(video_id')
               THEN /\ shown' = Append(shown, "error: Invalid YouTube URL")
                    /\ flow' = "Failed"
                    /\ pc' = "process"
               ELSE /\ shown' = shown
                    /\ flow' = "Acquiring"
                    /\ pc' = "get_transcript_with_retry"
       ELSE /\ IF Strip(manual_transcript) = <<>>
               THEN /\ shown' = Append(shown, "error: Please paste a transcript")
                    /\ transcript_text' = NoneVal
                    /\ flow' = "Failed"
               ELSE /\ shown' = shown
                    /\ transcript_text' = manual_text(manual_transcript)
                    /\ flow' = "Acquiring"
            /\ pc' = "process"
            /\ UNCHANGED <<video_id, calls>>
    /\ UNCHANGED <<script, chat, GOOGLE_API_KEY, ats, environ, runs, inputVars, proxy_response, proxies, attempt,
                   transcript_list, exc, ragVars, heap, failed_fetches>>

\* lines 108-112: get_transcript_with_retry begins; the proxy list is fetched
GtInit ==
    /\ script = "youtube.py" /\ pc = "get_transcript_with_retry"
    /\ IF use_proxy
       THEN /\ proxy_response' \in ProxyResponses
            /\ proxies' = get_free_proxies(proxy_response')
            /\ calls' = Called(calls, "get_free_proxies")
       ELSE /\ proxy_response' = NoResponse
            /\ proxies' = <<>>
            /\ calls' = calls
    /\ attempt' = 0
    /\ pc' = "attempt"
    /\ UNCHANGED <<script, chat, GOOGLE_API_KEY, ats, environ, runs, shown, inputVars, video_id,
                   transcript_text, transcript_list, exc, ragVars, heap, flow, failed_fetches>>

\* lines 116-127: with a proxy list, a random proxy is written to os.environ
ProxyEnviron(env) ==
    IF use_proxy /\ proxies # <<>>
    THEN {[HTTP_PROXY |-> proxy, HTTPS_PROXY |-> proxy] : proxy \in Range(proxies)}
    ELSE {env}

\* a variant of lines 136-137 that retries after any error
should_retry_any_error(error_msg, at, max_attempts) == at < max_attempts - 1

\* a variant of line 137 that also retries after the last attempt
should_retry_once_more(error_msg, at, max_attempts) ==
    IsBlockedMsg(error_msg) /\ at < max_attempts

\* lines 136-137: the failure is classified as IP blocking and the attempt
\* is not the last one
should_retry(error_msg, at, max_attempts) ==
    IsBlockedMsg(error_msg) /\ at < max_attempts - 1

\* lines 116-119: with a proxy list, the attempt is announced
attempt_info(sh) ==
    IF use_proxy /\ proxies # <<>> THEN Append(sh, "info: Trying with proxy...") ELSE sh

\* lines 114-146: one iteration of the retry loop: the service is called and
\* returns a caption track or raises; exc is the exception last caught
GtAttempt ==
    /\ script = "youtube.py" /\ pc = "attempt"
    /\ IF attempt >= retry_attempts
       THEN \* line 146, after the loop
            /\ exc' = [type |-> "Exception", msg |-> MsgFailedAfterAttempts, cause |-> "none"]
            /\ pc' = "except"
            /\ UNCHANGED <<environ, shown, attempt, transcript_list, calls>>
       ELSE /\ environ' \in ProxyEnviron(environ)
            /\ \/ \E track \in CaptionTracks :
                    /\ transcript_list' = track
                    /\ calls' = Called(calls, "get_transcript")
                    /\ shown' = attempt_info(shown)
                    /\ pc' = "return"
                    /\ UNCHANGED <<attempt, exc>>
               \/ \E e \in CaptionFailures :
                    /\ transcript_list' = transcript_list
                    /\ IF e.type = "TranscriptsDisabled"
                       THEN /\ exc' = [e EXCEPT !.msg = MsgDisabledForVideo]
                            /\ calls' = Called(calls, "get_transcript")
                            /\ shown' = attempt_info(shown)
                            /\ pc' = "except"
                            /\ attempt' = attempt
                       ELSE IF should_retry(e.msg, attempt, retry_attempts)
                       THEN /\ shown' = Append(attempt_info(shown), "warning: IP blocked. Retrying...")
                            /\ calls' = Called(Called(calls, "get_transcript"), "backoff_sleep")
                            /\ attempt' = attempt + 1
                            /\ pc' = "attempt"
                            /\ exc' = e
                       ELSE IF IsBlockedMsg(e.msg)
                       THEN /\ exc' = [type |-> "Exception", msg |-> MsgBlockingThisIp,
                                       cause |-> e.cause]
                            /\ calls' = Called(calls, "get_transcript")
                            /\ shown' = attempt_info(shown)
                            /\ pc' = "except"
                            /\ attempt' = attempt
                       ELSE /\ exc' = e
                            /\ calls' = Called(calls, "get_transcript")
                            /\ shown' = attempt_info(shown)
                            /\ pc' = "except"
                            /\ attempt' = attempt
    /\ UNCHANGED <<script, chat, GOOGLE_API_KEY, ats, runs, inputVars, video_id, transcript_text,
                   proxy_response, proxies, ragVars, heap, flow, failed_fetches>>

\* lines 197-198: the fragments' texts are joined into the transcript
YtTranscript ==
    /\ script = "youtube.py" /\ pc = "return"
    /\ transcript_text' = Join(<<" ">>, transcript_list)
    /\ pc' = "process"
    /\ UNCHANGED <<script, chat, GOOGLE_API_KEY, ats, environ, runs, shown, inputVars, video_id,
                   proxy_response, proxies, attempt, transcript_list, exc, ragVars, heap, flow, calls,
                   failed_fetches>>

\* a variant of lines 200-236 without the handler of TranscriptsDisabled
except_message_one_handler(e) ==
    IF IsBlockedMsg(e.msg)
    THEN <<"error: YouTube IP Blocking Detected", "markdown: solutions to try">>
    ELSE IF IsQuotaMsg(e.msg)
    THEN <<"error: API Quota Exceeded", "info: check quotas">>
    ELSE <<"error: An error occurred: " \o Str(e.msg), "info: check API key">>

\* lines 200-236: what the handlers display for exception e
except_message(e) ==
    IF e.type = "TranscriptsDisabled"
    THEN <<"error: Transcript is disabled for this video", "info: use manual transcript">>
    ELSE IF IsBlockedMsg(e.msg)
    THEN <<"error: YouTube IP Blocking Detected", "markdown: solutions to try">>
    ELSE IF IsQuotaMsg(e.msg)
    THEN <<"error: API Quota Exceeded", "info: check quotas">>
    ELSE <<"error: An error occurred: " \o Str(e.msg), "info: check API key">>

\* lines 200-236: the handlers of the acquisition's exceptions
YtExcept ==
    /\ script = "youtube.py" /\ pc = "except"
    /\ shown' = shown \o except_message(exc)
    /\ flow' = "Failed"
    /\ failed_fetches' = failed_fetches + 1
    /\ pc' = "process"
    /\ UNCHANGED <<script, chat, GOOGLE_API_KEY, ats, environ, runs, inputVars, acquireVars, ragVars,
                   heap, calls>>

\* a variant of line 245 that tests for None only: if transcript_text is not None
process_guard_not_none(text) == text # NoneVal

\* line 245: if transcript_text
process_guard(text) == Truthy(text)

\* lines 245-246: the transcript, when there is one, is processed
YtProcess ==
    /\ script = "youtube.py" /\ pc = "process"
    /\ pc' = IF process_guard(transcript_text) THEN "split" ELSE "done"
    /\ UNCHANGED <<script, chat, GOOGLE_API_KEY, ats, environ, runs, shown, inputVars, acquireVars,
                   ragVars, heap, flow, calls, failed_fetches>>

\* lines 151-152: the transcript is split into chunks
PtaSplit ==
    /\ script = "youtube.py" /\ pc = "split"
    /\ splitter' = [chunk_size |-> ChunkSize, chunk_overlap |-> ChunkOverlap]
    /\ chunks' = create_documents(transcript_text, splitter'.chunk_size, splitter'.chunk_overlap)
    /\ calls' = Called(calls, "splitter")
    /\ flow' = "Chunking"
    /\ pc' = "embed"
    /\ UNCHANGED <<script, chat, GOOGLE_API_KEY, ats, environ, runs, shown, inputVars, acquireVars,
                   vectors, vector_store, search_kwargs, query_vector, retrieved, prompt, answer, heap,
                   failed_fetches>>

\* a variant that keeps one index for the process and rebuilds it in place
AllocateInPlace(h, index) == IF h = <<>> THEN <<index>> ELSE [h EXCEPT ![Len(h)] = index]

\* FAISS.from_documents returns a new object: the heap grows by one instance
Allocate(h, index) == Append(h, index)

\* lines 154-155, FAISS.from_documents embedding the chunks: the embedding
\* service returns one vector per chunk or raises (no chunk, no request)
PtaEmbed ==
    /\ script = "youtube.py" /\ pc = "embed"
    /\ flow' = "Embedding"
    /\ IF chunks = <<>>
       THEN /\ vectors' = <<>>
            /\ pc' = "build"
            /\ UNCHANGED <<exc, calls>>
       ELSE /\ calls' = Called(calls, "embedder")
            /\ \/ /\ vectors' \in [DOMAIN chunks -> Vectors]
                  /\ pc' = "build"
                  /\ exc' = exc
               \/ /\ exc' \in GeminiFailures
                  /\ pc' = "process_except"
                  /\ vectors' = vectors
    /\ UNCHANGED <<script, chat, GOOGLE_API_KEY, ats, environ, runs, shown, inputVars, video_id,
                   transcript_text, proxy_response, proxies, attempt, transcript_list, chunks, vector_store,
                   splitter, search_kwargs, query_vector, retrieved, prompt, answer, heap, failed_fetches>>

\* lines 155-156, FAISS.from_documents building the index: a new instance;
\* with no vector the dimension lookup embeddings[0] raises IndexError
PtaBuild ==
    /\ script = "youtube.py" /\ pc = "build"
    /\ calls' = Called(calls, "index_build")
    /\ IF vectors = <<>>
       THEN /\ exc' = [type |-> "IndexError", msg |-> MsgListIndex, cause |-> "no_chunks"]
            /\ pc' = "process_except"
            /\ UNCHANGED <<heap, vector_store, search_kwargs, flow>>
       ELSE /\ heap' = Allocate(heap, from_documents(chunks, vectors))
            /\ vector_store' = Len(heap')
            /\ search_kwargs' = [k |-> K]
            /\ flow' = "Indexed"
            /\ pc' = "retrieve"
            /\ exc' = exc
    /\ UNCHANGED <<script, chat, GOOGLE_API_KEY, ats, environ, runs, shown, inputVars, video_id,
                   transcript_text, proxy_response, proxies, attempt, transcript_list, chunks, vectors,
                   splitter, query_vector, retrieved, prompt, answer, failed_fetches>>

\* line 179, the retriever of the chain: the question is embedded and the
\* index searched for its K nearest chunks
PtaRetrieve ==
    /\ script = "youtube.py" /\ pc = "retrieve"
    /\ flow' = "Retrieving"
    /\ \/ \E v \in Vectors :
            /\ query_vector' = v
            /\ calls' = Called(Called(calls, "embedder"), "index_query")
            /\ retrieved' = similarity_search(heap[vector_store], v, search_kwargs.k)
            /\ pc' = "compose"
            /\ exc' = exc
       \/ /\ exc' \in GeminiFailures
          /\ calls' = Called(calls, "embedder")
          /\ pc' = "process_except"
          /\ UNCHANGED <<query_vector, retrieved>>
    /\ UNCHANGED <<script, chat, GOOGLE_API_KEY, ats, environ, runs, shown, inputVars, video_id,
                   transcript_text, proxy_response, proxies, attempt, transcript_list, chunks, vectors,
                   vector_store, splitter, search_kwargs, prompt, answer, heap, failed_fetches>>

\* line 179, format_docs and the prompt template of the chain
PtaCompose ==
    /\ script = "youtube.py" /\ pc = "compose"
    /\ flow' = "Composing"
    /\ prompt' = render_prompt(format_docs(retrieved), question)
    /\ pc' = "generate"
    /\ UNCHANGED <<script, chat, GOOGLE_API_KEY, ats, environ, runs, shown, inputVars, acquireVars,
                   chunks, vectors, vector_store, splitter, search_kwargs, query_vector, retrieved, answer, heap,
                   calls, failed_fetches>>

\* line 179, the llm and the parser of the chain: the generation service
\* returns a completion or raises
PtaGenerate ==
    /\ script = "youtube.py" /\ pc = "generate"
    /\ flow' = "Generating"
    /\ calls' = Called(calls, "llm")
    /\ \/ /\ answer' \in Answers
          /\ pc' = "answer"
          /\ exc' = exc
       \/ /\ exc' \in GeminiFailures
          /\ pc' = "process_except"
          /\ answer' = answer
    /\ UNCHANGED <<script, chat, GOOGLE_API_KEY, ats, environ, runs, shown, inputVars, video_id,
                   transcript_text, proxy_response, proxies, attempt, transcript_list, chunks, vectors,
                   vector_store, splitter, search_kwargs, query_vector, retrieved, prompt, heap, failed_fetches>>

\* lines 180 and 248-254: the answer and the transcript preview are shown
YtAnswer ==
    /\ script = "youtube.py" /\ pc = "answer"
    /\ shown' = shown \o <<"subheader: Answer", "write: answer", "text: transcript preview">>
    /\ flow' = "Answered"
    /\ pc' = "done"
    /\ UNCHANGED <<script, chat, GOOGLE_API_KEY, ats, environ, runs, inputVars, acquireVars, ragVars,
                   heap, calls, failed_fetches>>

\* line 182: raise Exception(f"Error processing transcript: {str(e)}")
process_exception(e) == [e EXCEPT !.type = "Exception", !.msg = MsgErrorProcessing \o e.msg]

\* a variant of lines 256-258 that shows a fixed text
process_error_shown_fixed(e) == <<"error: Error processing transcript", "info: check API key">>

\* lines 256-258: st.error(f"Error processing transcript: {str(e)}") and the hint
process_error_shown(e) ==
    <<"error: Error processing transcript: " \o Str(e.msg), "info: check API key">>

\* lines 181-182 and 256-258: the exception is wrapped and reported
PtaExcept ==
    /\ script = "youtube.py" /\ pc = "process_except"
    /\ exc' = process_exception(exc)
    /\ shown' = shown \o process_error_shown(exc')
    /\ flow' = "Failed"
    /\ pc' = "done"
    /\ UNCHANGED <<script, chat, GOOGLE_API_KEY, ats, environ, runs, inputVars, video_id,
                   transcript_text, proxy_response, proxies, attempt, transcript_list, ragVars, heap, calls,
                   failed_fetches>>

\* Streamlit runs the script again, in the same process, when the user
\* changes a widget: the script's variables start afresh, the process
\* environment and the objects on the heap stay
Rerun ==
    /\ pc \in {"done", "stopped"}
    /\ runs < MaxRuns
    /\ runs' = runs + 1
    /\ pc' = "start"
    /\ shown' = <<>>
    /\ use_proxy' = FALSE /\ retry_attempts' = MinRetry /\ input_method' = "YouTube URL"
    /\ video_url' = NoneVal /\ manual_transcript' = NoneVal /\ question' = <<>>
    /\ video_id' = NoneVal /\ transcript_text' = NoneVal
    /\ proxy_response' = NoResponse
    /\ proxies' = <<>> /\ attempt' = 0 /\ transcript_list' = <<>> /\ exc' = NoExc
    /\ splitter' = NoSplitter
    /\ chunks' = <<>> /\ vectors' = <<>> /\ vector_store' = NoIndex /\ search_kwargs' = [k |-> 0]
    /\ query_vector' = <<>>
    /\ retrieved' = <<>> /\ prompt' = <<>> /\ answer' = NoneVal
    /\ flow' = "Idle" /\ calls' = NoCalls
    /\ ats' = FreshAts(ats.cloud)
    /\ UNCHANGED <<script, chat, GOOGLE_API_KEY, environ, heap, failed_fetches>>

(***************************************************************************)
(* ATS.py, one script run.                                                 *)
(***************************************************************************)
\* what the user may type as the job description
JobDescriptions == { <<>>, <<" ">>, <<"j","d">> }

\* what the user may upload: a PDF with text, a scanned PDF without text, a
\* PDF that cannot be read
UploadedFiles ==
    { NoFile,
      [name |-> "resume.pdf", readable |-> TRUE,  text |-> <<"c","v">>],
      [name |-> "scan.pdf",   readable |-> TRUE,  text |-> <<>>],
      [name |-> "locked.pdf", readable |-> FALSE, text |-> <<>>] }

MsgPermissionDenied == <<"4","0","3"," ","P","e","r","m","i","s","s","i","o","n","D","e","n","i","e","d",":"," ","c","a","l","l","e","r"," ","l","a","c","k","s"," ","p","e","r","m","i","s","s","i","o","n">>

MsgDeadline == <<"D","e","a","d","l","i","n","e"," ","e","x","c","e","e","d","e","d">>

MsgExhaustedPlain == <<"4","2","9"," ","R","e","s","o","u","r","c","e"," ","h","a","s"," ","b","e","e","n"," ","e","x","h","a","u","s","t","e","d"," ","(","e",".","g","."," ","c","h","e","c","k"," ","q","u","o","t","a",")",".">>

MsgKeyPlain == <<"I","n","v","a","l","i","d"," ","a","r","g","u","m","e","n","t"," ","p","r","o","v","i","d","e","d"," ","t","o"," ","G","e","m","i","n","i",":"," ","4","0","0"," ","A","P","I"," ","k","e","y"," ","n","o","t"," ","v","a","l","i","d">>

MsgExhaustedOnRetry == <<"R","e","s","o","u","r","c","e","E","x","h","a","u","s","t","e","d"," ","a","f","t","e","r"," ","r","e","t","r","y","i","n","g"," ","I","n","v","a","l","i","d","A","r","g","u","m","e","n","t">>

\* what model.invoke may raise in ATS.py
InvokeFailures ==
    GeminiFailures \cup
    { [type |-> "PermissionDenied", msg |-> MsgPermissionDenied, cause |-> "bad_key"],
      [type |-> "ResourceExhausted", msg |-> MsgExhaustedPlain,  cause |-> "quota"],
      [type |-> "ResourceExhausted", msg |-> MsgExhaustedOnRetry, cause |-> "quota"],
      [type |-> "ChatGoogleGenerativeAIError", msg |-> MsgKeyPlain, cause |-> "bad_key"],
      [type |-> "DeadlineExceeded", msg |-> MsgDeadline,         cause |-> "network"] }

\* a variant of line 178 that forgets "PermissionDenied"
gemini_error_message_one_token(error_msg) ==
    IF Contains(<<"R","e","s","o","u","r","c","e","E","x","h","a","u","s","t","e","d">>, error_msg)
    THEN "API Quota Exceeded"
    ELSE IF Contains(<<"I","n","v","a","l","i","d","A","r","g","u","m","e","n","t">>, error_msg)
    THEN "API Key Error"
    ELSE "Unexpected Error: " \o Str(error_msg)

\* lines 156-198: the message get_gemini_response returns for an exception
gemini_error_message(error_msg) ==
    IF Contains(<<"R","e","s","o","u","r","c","e","E","x","h","a","u","s","t","e","d">>, error_msg)
    THEN "API Quota Exceeded"
    ELSE IF \/ Contains(<<"I","n","v","a","l","i","d","A","r","g","u","m","e","n","t">>, error_msg)
            \/ Contains(<<"P","e","r","m","i","s","s","i","o","n","D","e","n","i","e","d">>, error_msg)
    THEN "API Key Error"
    ELSE "Unexpected Error: " \o Str(error_msg)

\* lines 10-35: the key is read and validated; st.stop() ends the run
AtsStart ==
    /\ script = "ATS.py" /\ pc = "start"
    /\ IF ~Truthy(GOOGLE_API_KEY)
       THEN /\ shown' = shown \o <<"error: GOOGLE_API_KEY not found", "markdown: how to fix">>
            /\ pc' = "stopped"
       ELSE /\ shown' = shown
            /\ pc' = "widgets"
    /\ UNCHANGED <<script, chat, GOOGLE_API_KEY, environ, runs, ytVars, calls, ats>>

\* lines 202-227: the widgets are drawn and return what the user has entered;
\* a click makes one button True for the run
AtsWidgets ==
    /\ script = "ATS.py" /\ pc = "widgets"
    /\ \E t \in JobDescriptions, f \in UploadedFiles,
          b \in {"none", "submit1", "submit3", "test"} :
            /\ ats' = [ats EXCEPT !.input_text = t, !.uploaded_file = f, !.pressed = b]
            /\ shown' = IF f # NoFile THEN Append(shown, "success: PDF Uploaded") ELSE shown
    /\ pc' = "test_button"
    /\ UNCHANGED <<script, chat, GOOGLE_API_KEY, environ, runs, ytVars, calls>>

\* lines 43-50 and 230-235: the "Test API Key" button calls the model
AtsTestKey ==
    /\ script = "ATS.py" /\ pc = "test_button"
    /\ IF ats.pressed = "test"
       THEN /\ calls' = Called(calls, "llm")
            /\ \/ shown' = Append(shown, "success: API key is working correctly!")
               \/ \E e \in InvokeFailures :
                    shown' = Append(shown, "error: API key test failed: " \o Str(e.msg))
       ELSE UNCHANGED <<calls, shown>>
    /\ pc' = "buttons"
    /\ UNCHANGED <<script, chat, GOOGLE_API_KEY, environ, runs, ytVars, ats>>

\* lines 53-90: input_pdf_setup: text extraction in the cloud, the first
\* page's image locally, None when the PDF cannot be processed
input_pdf_setup(cloud, uploaded_file) ==
    IF ~uploaded_file.readable THEN NoPdf
    ELSE IF cloud
    THEN IF Strip(uploaded_file.text \o <<"\n">>) = <<>> THEN NoPdf
         ELSE [type |-> "text", content |-> uploaded_file.text \o <<"\n">>]
    ELSE [type |-> "image", content |-> <<"b","6","4">>]

\* lines 321-334 and 340-343: the analysis buttons
AtsButtons ==
    /\ script = "ATS.py" /\ pc = "buttons"
    /\ IF ats.pressed \in {"submit1", "submit3"}
       THEN IF ats.uploaded_file # NoFile /\ Strip(ats.input_text) # <<>>
            THEN LET pdf_data == input_pdf_setup(ats.cloud, ats.uploaded_file)
                 IN  /\ ats' = [ats EXCEPT !.pdf_data = pdf_data]
                     /\ IF pdf_data # NoPdf
                        THEN /\ shown' = shown
                             /\ pc' = "get_gemini_response"
                        ELSE /\ shown' = shown \o
                                  (IF ats.uploaded_file.readable
                                   THEN <<"warning: No text could be extracted">>
                                   ELSE <<"error: Error processing PDF">>)
                                  \o <<"error: Failed to process the PDF">>
                             /\ pc' = "done"
            ELSE /\ shown' = Append(shown, "warning: Please upload a resume and enter the job description")
                 /\ pc' = "done"
                 /\ ats' = ats
       ELSE /\ pc' = "done"
            /\ UNCHANGED <<shown, ats>>
    /\ UNCHANGED <<script, chat, GOOGLE_API_KEY, environ, runs, ytVars, calls>>

\* lines 94-198 and 336-339: get_gemini_response calls the model and returns
\* its answer, or the message of the exception; the response is written
AtsRespond ==
    /\ script = "ATS.py" /\ pc = "get_gemini_response"
    /\ calls' = Called(calls, "llm")
    /\ \/ ats' = [ats EXCEPT !.response = "analysis"]
       \/ \E e \in InvokeFailures :
            ats' = [ats EXCEPT !.exc = e, !.response = gemini_error_message(e.msg)]
    /\ shown' = shown \o <<"subheader: Analysis", "write: response">>
    /\ pc' = "done"
    /\ UNCHANGED <<script, chat, GOOGLE_API_KEY, environ, runs, ytVars>>

AtsNext == AtsStart \/ AtsWidgets \/ AtsTestKey \/ AtsButtons \/ AtsRespond

YtNext ==
    \/ YtStart \/ YtWidgets \/ YtMain \/ GtInit \/ GtAttempt \/ YtTranscript \/ YtExcept
    \/ YtProcess \/ PtaSplit \/ PtaEmbed \/ PtaBuild \/ PtaRetrieve \/ PtaCompose
    \/ PtaGenerate \/ YtAnswer \/ PtaExcept

Next == YtNext \/ AtsNext \/ Rerun

Spec == Init /\ [][Next]_vars

(***************************************************************************)
(* extract_video_id on its own: called once on a URL made of a lead that   *)
(* ends in "v=" or "/", an identifier and a tail, or on a string of        *)
(* neither form.                                                           *)
(***************************************************************************)
UrlEmbed == <<"h","t","t","p","s",":","/","/","w","w","w",".","y","o","u","t","u","b","e",".","c","o","m","/","e","m","b","e","d","/">>

UrlNoCookie == <<"h","t","t","p","s",":","/","/","y","o","u","t","u","b","e","-","n","o","c","o","o","k","i","e",".","c","o","m","/","e","m","b","e","d","/">>

UrlShared == <<"h","t","t","p","s",":","/","/","w","w","w",".","y","o","u","t","u","b","e",".","c","o","m","/","w","a","t","c","h","?","f","e","a","t","u","r","e","=","s","h","a","r","e","&","v","=">>

UrlLeads == { UrlWatch, UrlShort, UrlEmbed, UrlNoCookie, UrlShared, <<"v", "=">>, <<"/">> }

VideoIds ==
    { IdRick,
      <<"0","1","2","3","4","5","6","7","8","9","A">>,
      <<"_","-","_","-","_","-","_","-","_","-","_">>,
      <<"a","b","c","d","e","f","g","h","i","j","k">> }

UrlTails == { <<>>, <<"&","t","=","4","2","s">>, <<"?","t","=","1">> }

\* strings in which no "v=" or "/" is followed by 11 characters of the class
OtherStrings ==
    { <<>>,
      <<"n","o","t"," ","a"," ","l","i","n","k">>,
      <<"h","t","t","p","s",":","/","/","y","o","u","t","u",".","b","e","/","s","h","o","r","t">>,
      <<"v","=","t","o","o","_","s","h","o","r","t">>,
      <<"h","t","t","p","s",":","/","/","w","w","w",".","y","o","u","t","u","b","e",".","c","o","m","/","w","a","t","c","h","?","v","=","d","Q","w","4","w","9","W","g","X","c","!">>,
      <<"h","t","t","p","s",":","/","/","w","w","w",".","y","o","u","t","u","b","e",".","c","o","m","/">> }

ProbeUrls ==
    {lead \o id \o tail : lead \in UrlLeads, id \in VideoIds, tail \in UrlTails}
    \cup OtherStrings

\* a process outside the script runs of youtube.py and ATS.py: everything
\* but what its specification sets
ProbeInit(name) ==
    /\ script = name
    /\ GOOGLE_API_KEY = <<"k","e","y">>
    /\ environ = [HTTP_PROXY |-> NoneVal, HTTPS_PROXY |-> NoneVal]
    /\ runs = 1
    /\ failed_fetches = 0
    /\ ats = FreshAts(FALSE)
    /\ chat = FreshChat
    /\ shown = <<>>
    /\ use_proxy = FALSE /\ retry_attempts = MinRetry /\ input_method = "YouTube URL"
    /\ manual_transcript = NoneVal /\ question = <<>>
    /\ video_id = NoneVal
    /\ proxy_response = NoResponse
    /\ proxies = <<>> /\ attempt = 0 /\ transcript_list = <<>> /\ exc = NoExc
    /\ vector_store = NoIndex /\ query_vector = <<>>
    /\ retrieved = <<>> /\ prompt = <<>> /\ answer = NoneVal
    /\ heap = <<>>
    /\ flow = "Idle" /\ calls = NoCalls

InitExtract ==
    /\ ProbeInit("extract_video_id")
    /\ pc = "call"
    /\ video_url \in ProbeUrls
    /\ transcript_text = NoneVal
    /\ splitter = NoSplitter
    /\ chunks = <<>> /\ vectors = <<>> /\ search_kwargs = [k |-> 0]

\* lines 89-92: extract_video_id(video_url)
ExtractCall ==
    /\ script = "extract_video_id" /\ pc = "call"
    /\ video_id' = extract_video_id(video_url)
    /\ calls' = Called(calls, "extract_video_id")
    /\ pc' = "returned"
    /\ UNCHANGED <<script, chat, GOOGLE_API_KEY, ats, environ, runs, shown, inputVars,
                   transcript_text, proxy_response, proxies, attempt, transcript_list, exc, ragVars, heap,
                   flow, failed_fetches>>

SpecExtract == InitExtract /\ [][ExtractCall]_vars

(***************************************************************************)
(* The Similarity Index on its own: an index is built from up to MaxChunks *)
(* chunks and their vectors and queried once for its k nearest chunks.     *)
(***************************************************************************)
\* n different chunks
ProbeChunks(n) == [i \in 1..n |-> <<LowerChars[i]>>]

InitIndex ==
    /\ ProbeInit("similarity_index")
    /\ pc = "build"
    /\ video_url = NoneVal
    /\ transcript_text = NoneVal
    /\ splitter = NoSplitter
    /\ \E n \in 1..MaxChunks :
         /\ chunks = ProbeChunks(n)
         /\ vectors \in [1..n -> Vectors]
    /\ search_kwargs \in {[k |-> k] : k \in 1..(MaxChunks + 1)}

\* line 155: FAISS.from_documents(chunks, embeddings)
IxBuild ==
    /\ script = "similarity_index" /\ pc = "build"
    /\ heap' = Allocate(heap, from_documents(chunks, vectors))
    /\ vector_store' = Len(heap')
    /\ calls' = Called(calls, "index_build")
    /\ pc' = "query"
    /\ UNCHANGED <<script, chat, GOOGLE_API_KEY, ats, environ, runs, shown, inputVars, acquireVars,
                   chunks, vectors, splitter, search_kwargs, query_vector, retrieved, prompt, answer,
                   flow, failed_fetches>>

\* lines 156 and 179: the retriever's search for the k nearest chunks
IxQuery ==
    /\ script = "similarity_index" /\ pc = "query"
    /\ \E v \in Vectors :
         /\ query_vector' = v
         /\ retrieved' = similarity_search(heap[vector_store], v, search_kwargs.k)
    /\ calls' = Called(calls, "index_query")
    /\ pc' = "done"
    /\ UNCHANGED <<script, chat, GOOGLE_API_KEY, ats, environ, runs, shown, inputVars, acquireVars,
                   chunks, vectors, vector_store, splitter, search_kwargs, prompt, answer, heap, flow,
                   failed_fetches>>

NextIndex == IxBuild \/ IxQuery

SpecIndex == InitIndex /\ [][NextIndex]_vars

(***************************************************************************)
(* The Chunker on its own: a splitter is constructed with a chunk_size and *)
(* a smaller chunk_overlap (the flow's 1000 and 200 among them) and splits *)
(* one transcript.                                                         *)
(***************************************************************************)
ProbeTexts == UNION {[1..m -> {" ", "a", "b"}] : m \in 0..MaxText}

ProbeSizes ==
    {[chunk_size |-> c, chunk_overlap |-> o] : c \in 1..MaxSize, o \in 0..(MaxSize - 1)}
    \cup {[chunk_size |-> ChunkSize, chunk_overlap |-> ChunkOverlap]}

InitChunk ==
    /\ ProbeInit("chunker")
    /\ pc = "call"
    /\ video_url = NoneVal
    /\ transcript_text \in ProbeTexts
    /\ splitter \in {size \in ProbeSizes : size.chunk_overlap < size.chunk_size}
    /\ chunks = <<>> /\ vectors = <<>> /\ search_kwargs = [k |-> 0]

\* line 152: splitter.create_documents([transcript_text])
ChunkCall ==
    /\ script = "chunker" /\ pc = "call"
    /\ chunks' = create_documents(transcript_text, splitter.chunk_size, splitter.chunk_overlap)
    /\ calls' = Called(calls, "splitter")
    /\ pc' = "returned"
    /\ UNCHANGED <<script, chat, GOOGLE_API_KEY, ats, environ, runs, shown, inputVars,
                   acquireVars, splitter, vectors, vector_store, search_kwargs, query_vector,
                   retrieved, prompt, answer, heap, flow, failed_fetches>>

SpecChunk == InitChunk /\ [][ChunkCall]_vars

(***************************************************************************)
(* process_transcript_and_answer after the split, for a transcript long    *)
(* enough to give up to MaxChunks chunks: the run of youtube.py from the   *)
(* embedding of the chunks to its end.                                     *)
(***************************************************************************)
AskedQuestions == { <<"q","?">>, <<"{","c","o","n","t","e","x","t","}">> }

InitAnswer ==
    /\ script = "youtube.py"
    /\ GOOGLE_API_KEY = <<"k","e","y">>
    /\ environ = [HTTP_PROXY |-> NoneVal, HTTPS_PROXY |-> NoneVal]
    /\ pc = "embed"
    /\ runs = MaxRuns
    /\ failed_fetches = 0
    /\ ats = FreshAts(FALSE)
    /\ chat = FreshChat
    /\ shown = <<>>
    /\ use_proxy = FALSE /\ retry_attempts = MinRetry /\ input_method = "Manual Transcript"
    /\ video_url = NoneVal /\ video_id = NoneVal
    /\ question \in AskedQuestions
    /\ \E n \in 1..MaxChunks :
         /\ chunks = ProbeChunks(n)
         /\ manual_transcript = Join(<<" ">>, chunks)
         /\ transcript_text = manual_text(manual_transcript)
    /\ proxy_response = NoResponse
    /\ proxies = <<>> /\ attempt = 0 /\ transcript_list = <<>> /\ exc = NoExc
    /\ splitter = [chunk_size |-> ChunkSize, chunk_overlap |-> ChunkOverlap]
    /\ vectors = <<>> /\ vector_store = NoIndex /\ search_kwargs = [k |-> 0]
    /\ query_vector = <<>> /\ retrieved = <<>> /\ prompt = <<>> /\ answer = NoneVal
    /\ heap = <<>>
    /\ flow = "Chunking"
    /\ calls = Called(NoCalls, "splitter")

NextAnswer ==
    PtaEmbed \/ PtaBuild \/ PtaRetrieve \/ PtaCompose \/ PtaGenerate \/ YtAnswer \/ PtaExcept

SpecAnswer == InitAnswer /\ [][NextAnswer]_vars

(***************************************************************************)
(* chatbot.py: the chat loop.                                              *)
(***************************************************************************)
Bye == <<"b","y","e">>

\* what the user may type at the prompt
UserInputs ==
    { <<"h","i">>, <<>>, <<"b","y","e"," ">>, Bye, <<"B","y","e">>, <<"B","Y","E">> }

\* what the model may reply: result.content
Replies == { <<"o","k">>, <<"b","y","e">> }

HumanMessage(content) == [type |-> "human", content |-> content]

AIMessage(content) == [type |-> "ai", content |-> content]

\* a variant of line 19 that compares the input as typed
is_bye_as_typed(user_input) == user_input = Bye

\* line 19: user_input.lower() == "bye"
is_bye(user_input) == Lower(user_input) = Bye

\* lines 1-12: the model is constructed and chat_history = []
InitChat ==
    /\ ProbeInit("chatbot.py")
    /\ pc = "input"
    /\ video_url = NoneVal /\ transcript_text = NoneVal
    /\ splitter = NoSplitter
    /\ chunks = <<>> /\ vectors = <<>> /\ search_kwargs = [k |-> 0]

\* line 16: user_input = input("You: "); input may raise EOFError, which
\* ends the program
ChatInput ==
    /\ script = "chatbot.py" /\ pc = "input"
    /\ \/ /\ \E typed \in UserInputs :
               /\ Len(chat.chat_history) >= 2 * MaxTurns => is_bye(typed)
               /\ chat' = [chat EXCEPT !.user_input = typed]
          /\ pc' = "check"
       \/ /\ chat' = chat
          /\ pc' = "crashed"
    /\ UNCHANGED <<script, GOOGLE_API_KEY, environ, runs, shown, ytVars, calls, ats>>

\* lines 19-24: "bye" ends the loop; any other input is appended to the
\* history as a HumanMessage
ChatCheck ==
    /\ script = "chatbot.py" /\ pc = "check"
    /\ IF is_bye(chat.user_input)
       THEN /\ chat' = [chat EXCEPT !.printed = Append(@, <<"A","I",":"," ","B","y","e","!">>)]
            /\ pc' = "exit"
       ELSE /\ chat' = [chat EXCEPT
                          !.chat_history = Append(@, HumanMessage(chat.user_input))]
            /\ pc' = "invoke"
    /\ UNCHANGED <<script, GOOGLE_API_KEY, environ, runs, shown, ytVars, calls, ats>>

\* line 27: result = chatbot.invoke(chat_history); the model replies or
\* raises, and an exception ends the program
ChatInvoke ==
    /\ script = "chatbot.py" /\ pc = "invoke"
    /\ calls' = Called(calls, "llm")
    /\ \/ /\ \E reply \in Replies :
               chat' = [chat EXCEPT !.invoked = chat.chat_history, !.result = reply]
          /\ pc' = "reply"
       \/ /\ \E e \in GeminiFailures : chat' = [chat EXCEPT !.invoked = chat.chat_history]
          /\ pc' = "crashed"
    /\ UNCHANGED <<script, GOOGLE_API_KEY, environ, runs, shown, ytVars, ats>>

\* lines 30-33: the reply is appended as an AIMessage and printed
ChatReply ==
    /\ script = "chatbot.py" /\ pc = "reply"
    /\ chat' = [chat EXCEPT !.chat_history = Append(@, AIMessage(chat.result)),
                            !.printed = Append(@, <<"A","I",":"," ">> \o chat.result)]
    /\ pc' = "input"
    /\ UNCHANGED <<script, GOOGLE_API_KEY, environ, runs, shown, ytVars, calls, ats>>

NextChat == ChatInput \/ ChatCheck \/ ChatInvoke \/ ChatReply

SpecChat == InitChat /\ [][NextChat]_vars

(***************************************************************************)
(* The properties.                                                         *)
(***************************************************************************)
YtRun == script = "youtube.py"

\* the states of the flow of a question, in the order of the design
FlowOrder == <<"Idle", "Acquiring", "Chunking", "Embedding", "Indexed", "Retrieving",
               "Composing", "Generating", "Answered">>

FlowSucc(a, b) == \E i \in 1..(Len(FlowOrder) - 1) : FlowOrder[i] = a /\ FlowOrder[i + 1] = b

\* the error kinds of the design, by the error the user is shown
ErrorKind(message) ==
    CASE message \in {"error: Invalid YouTube URL", "error: Please paste a transcript"}
            -> "InputError"
      [] message \in {"error: Transcript is disabled for this video",
                      "error: YouTube IP Blocking Detected", "error: API Quota Exceeded"}
            -> "UpstreamUnavailable"
      [] message = "error: GOOGLE_API_KEY not found" -> "ServiceMisconfigured"
      [] OTHER -> "Unclassified"

\* the user has entered a question and a URL or a transcript
QuestionAsked == Truthy(question) /\ (Truthy(video_url) \/ Truthy(manual_transcript))

\* C1 (as claimed): the flow of a question moves through its steps in order,
\* one step at a time, or fails; and the run of every question asked ends in
\* Answered or in Failed.
C1_StepsInOrderRunEnds ==
    [][YtRun =>
         /\ flow' # flow =>
              \/ FlowSucc(flow, flow')
              \/ flow' = "Failed" /\ flow \notin {"Answered", "Failed"}
              \/ flow' = "Idle" /\ pc' = "start"
         /\ (pc' = "done" /\ QuestionAsked') => flow' \in {"Answered", "Failed"}]_vars

\* C2: once the captioning service has raised "transcripts disabled", it is not
\* called again, the chunker, the embedder, the index and the generator are
\* never called, and the run fails with the "transcript is disabled" error,
\* an UpstreamUnavailable error.
C2_DisabledFailsWithoutRetry ==
    (YtRun /\ exc.cause = "disabled") =>
        /\ calls.get_transcript = attempt + 1
        /\ calls.splitter = 0 /\ calls.embedder = 0 /\ calls.index_build = 0
        /\ calls.index_query = 0 /\ calls.llm = 0
        /\ pc \in {"except", "process", "done"}
        /\ pc # "except" =>
             /\ flow = "Failed"
             /\ transcript_text = NoneVal
             /\ shown # <<>>
             /\ shown[Len(shown) - 1] = "error: Transcript is disabled for this video"
             /\ ErrorKind(shown[Len(shown) - 1]) = "UpstreamUnavailable"
             /\ "error: YouTube IP Blocking Detected" \notin Range(shown)

\* C2's case: a run that ended after the service raised "transcripts
\* disabled" on a retry
C2_Witness == YtRun /\ exc.cause = "disabled" /\ pc = "done" /\ attempt > 0

\* C3 (as claimed): a failure for want of a caption track is never reported as
\* IP blocking, and a blocked request is never reported as missing captions.
C3_CaptionsAndBlockingKeptApart ==
    (YtRun /\ flow = "Failed") =>
        /\ exc.cause = "no_captions" => "error: YouTube IP Blocking Detected" \notin Range(shown)
        /\ exc.cause = "blocked" =>
             "error: Transcript is disabled for this video" \notin Range(shown)

\* the input errors of a run whose widgets have been read
BadUrl ==
    input_method = "YouTube URL" /\ Truthy(video_url) /\ extract_video_id(video_url) = NoneVal

BlankTranscript ==
    input_method = "Manual Transcript" /\ Truthy(manual_transcript)
    /\ Strip(manual_transcript) = <<>>

NothingEntered == ~QuestionAsked

InputError == YtRun /\ pc \in {"process", "done"} /\ (BadUrl \/ BlankTranscript \/ NothingEntered)

\* no component beyond the parsing of the URL has run, and nothing was built
NothingInvoked ==
    /\ calls.get_free_proxies = 0 /\ calls.get_transcript = 0 /\ calls.backoff_sleep = 0
    /\ calls.splitter = 0 /\ calls.embedder = 0 /\ calls.index_build = 0
    /\ calls.index_query = 0 /\ calls.llm = 0
    /\ transcript_text = NoneVal /\ chunks = <<>> /\ vectors = <<>> /\ vector_store = NoIndex
    /\ answer = NoneVal

\* C4 (as claimed): every input error is reported in the same run and nothing
\* is invoked.
C4_InputErrorsReported ==
    InputError => (NothingInvoked /\ \E i \in DOMAIN shown : ErrorKind(shown[i]) = "InputError")

\* C4 (amended): after an input error nothing is invoked; an unparseable URL
\* and a whitespace-only transcript are reported when a question was entered;
\* a missing question, URL or transcript is not reported: the run shows nothing.
C4_InputErrorsInvokeNothing ==
    InputError =>
        /\ NothingInvoked
        /\ (BadUrl /\ Truthy(question)) => shown = <<"error: Invalid YouTube URL">>
        /\ (BlankTranscript /\ Truthy(question)) => shown = <<"error: Please paste a transcript">>
        /\ NothingEntered => (shown = <<>> /\ flow = "Idle")

\* C4's case: a run that ended on a whitespace-only transcript
C4_Witness == InputError /\ BlankTranscript /\ Truthy(question) /\ pc = "done"

\* C5: without the API key the script stops where it reports it: no widget
\* is read and no component is called, in youtube.py and in ATS.py.
C5_MissingKeyHalts ==
    ~Truthy(GOOGLE_API_KEY) =>
        /\ pc \in {"start", "stopped"}
        /\ calls = NoCalls
        /\ video_url = NoneVal /\ manual_transcript = NoneVal /\ question = <<>>
        /\ ats = FreshAts(ats.cloud)
        /\ flow = "Idle" /\ heap = <<>>
        /\ pc = "stopped" => shown[1] = "error: GOOGLE_API_KEY not found"

\* C5's case: ATS.py stopped again on its second run
C5_Witness == ~Truthy(GOOGLE_API_KEY) /\ script = "ATS.py" /\ pc = "stopped" /\ runs > 1

\* C6: with a manual transcript the acquirer is never called, the pasted text
\* is the transcript and what the chunker splits, and a pasted transcript
\* with a question is processed however many fetches have failed before.
C6_ManualBypassesAcquirer ==
    (YtRun /\ input_method = "Manual Transcript") =>
        /\ calls.extract_video_id = 0 /\ calls.get_free_proxies = 0
        /\ calls.get_transcript = 0 /\ calls.backoff_sleep = 0
        /\ video_id = NoneVal
        /\ (pc \in {"process", "done"} /\ QuestionAsked /\ ~BlankTranscript) =>
              transcript_text = manual_transcript
        /\ calls.splitter > 0 =>
              /\ transcript_text = manual_transcript
              /\ chunks = create_documents(manual_transcript, ChunkSize, ChunkOverlap)

\* C6's case: a pasted transcript with surrounding blanks is being chunked
\* after an automated fetch has failed
C6_Witness ==
    /\ YtRun /\ input_method = "Manual Transcript" /\ failed_fetches > 0
    /\ flow = "Chunking" /\ Strip(manual_transcript) # manual_transcript

\* C8 (as claimed): no step changes the process environment.
C8_EnvironmentReadOnly == [][environ' = environ]_vars

C7_ExtractsTheIdentifier ==
    (script = "extract_video_id" /\ pc = "returned") =>
        /\ \A lead \in UrlLeads, id \in VideoIds, tail \in UrlTails :
              video_url = lead \o id \o tail => video_id = id
        /\ video_url \in OtherStrings => video_id = NoneVal

\* the place of a returned chunk in the index (the probe's chunks differ)
IdOf(index, chunk) == CHOOSE i \in DOMAIN index : index[i].chunk = chunk

DropFirst(s, n) == SubSeq(s, n + 1, Len(s))

\* the last n characters of the text (all of it when it is shorter)
LastOf(s, n) == SubSeq(s, IF Len(s) > n THEN Len(s) - n + 1 ELSE 1, Len(s))

RECURSIVE NonOverlapping(_, _)
\* the first chunk followed by each later chunk without its first n characters
NonOverlapping(cs, n) ==
    IF cs = <<>> THEN <<>>
    ELSE cs[1] \o Join(<<>>, [i \in 1..(Len(cs) - 1) |-> DropFirst(cs[i + 1], n)])

\* the chunks lie in the text at increasing places
InTextOrder(cs, text) ==
    \E at \in [DOMAIN cs -> 1..(Len(text) + 1)] :
        /\ \A i \in DOMAIN cs : SubSeq(text, at[i], at[i] + Len(cs[i]) - 1) = cs[i]
        /\ \A i \in 1..(Len(cs) - 1) : at[i] < at[i + 1]

ChunkerReturned == script = "chunker" /\ pc = "returned"

\* C11 (as claimed): for every transcript T and chunk_overlap < chunk_size the
\* chunks are in the order of T, each chunk begins with the last chunk_overlap
\* characters of the chunk before it, and the first chunk followed by the
\* later chunks without those characters is T.
C11_ChunksOverlapAndReconstruct ==
    (ChunkerReturned /\ splitter.chunk_overlap < splitter.chunk_size) =>
        /\ InTextOrder(chunks, transcript_text)
        /\ \A i \in 1..(Len(chunks) - 1) :
             /\ Len(chunks[i]) >= splitter.chunk_overlap
             /\ Len(chunks[i + 1]) >= splitter.chunk_overlap
             /\ LastOf(chunks[i], splitter.chunk_overlap)
                  = SubSeq(chunks[i + 1], 1, splitter.chunk_overlap)
        /\ NonOverlapping(chunks, splitter.chunk_overlap) = transcript_text

\* C12 (as claimed): a non-empty transcript gives at least one chunk, the
\* empty transcript none, no chunk is empty, and a transcript no longer than
\* chunk_size gives exactly one chunk, the transcript itself.
C12_ChunkCounts ==
    ChunkerReturned =>
        /\ transcript_text # <<>> => Len(chunks) >= 1
        /\ transcript_text = <<>> => chunks = <<>>
        /\ \A i \in DOMAIN chunks : chunks[i] # <<>>
        /\ (transcript_text # <<>> /\ Len(transcript_text) <= splitter.chunk_size)
             => chunks = <<transcript_text>>

\* the run has composed its prompt
Composed == YtRun /\ (pc \in {"generate", "answer"} \/ (pc = "done" /\ flow = "Answered"))

\* the context block: what the prompt holds between the template's text
\* before {context} and its text from {context} on
ContextOf(p, q) ==
    SubSeq(p, Len(TemplateHead) + 1, Len(p) - Len(TemplateMid) - Len(q) - Len(TemplateTail))

\* where the r-th retrieved chunk begins in the context block
StartOf(r) == 1 + TotalLen(SubSeq(retrieved, 1, r - 1)) + 2 * (r - 1)

\* C13: the composed prompt is the template with {context} and {question}
\* bound: its context block is the retrieved chunks' texts in the order the
\* index returned them, a blank line between consecutive chunks and nothing
\* else, and the literal question stands in the place of {question}; so the
\* prompt contains every retrieved chunk and the question.
C13_PromptComposition ==
    Composed =>
        LET context == ContextOf(prompt, question)
            n == Len(retrieved)
        IN  /\ retrieved = similarity_search(heap[vector_store], query_vector, K)
            /\ SubSeq(prompt, 1, Len(TemplateHead)) = TemplateHead
            /\ SubSeq(prompt, Len(prompt) - Len(TemplateTail) + 1, Len(prompt)) = TemplateTail
            /\ SubSeq(prompt, Len(TemplateHead) + Len(context) + 1,
                      Len(prompt) - Len(TemplateTail)) = TemplateMid \o question
            /\ Len(context) = TotalLen(retrieved) + 2 * (n - 1)
            /\ \A r \in 1..n :
                 SubSeq(context, StartOf(r), StartOf(r) + Len(retrieved[r]) - 1) = retrieved[r]
            /\ \A r \in 1..(n - 1) :
                 SubSeq(context, StartOf(r + 1) - 2, StartOf(r + 1) - 1) = <<"\n", "\n">>
            /\ \A r \in 1..n : Contains(retrieved[r], prompt)
            /\ Contains(question, prompt)

\* C13's case: a prompt composed of the four chunks the index returned, not in
\* the order of the transcript, for a question that spells a template field
C13_Witness ==
    /\ Composed /\ pc = "generate"
    /\ Len(retrieved) = K
    /\ retrieved # SubSeq(chunks, 1, K)
    /\ question = <<"{","c","o","n","t","e","x","t","}">>

\* what a failure of the embedding or generation service may be caused by
ServiceCauses == {"quota", "bad_key"}

\* the run of youtube.py ended in the handler of lines 256-258 after a
\* failure of the embedding or generation service
ServiceFailed ==
    YtRun /\ pc = "done" /\ flow = "Failed" /\ calls.embedder > 0 /\ exc.cause \in ServiceCauses

\* C14: after a failure of the generation or embedding service, what the user
\* is shown for a failure caused by an invalid key or missing permission is
\* never what is shown for a failure caused by an exhausted quota, in
\* youtube.py and in ATS.py; ATS.py's "API Quota Exceeded" is returned only
\* for an exhausted quota and its "API Key Error" only for an invalid key.
C14_CausesNeverShareAMessage ==
    /\ ServiceFailed =>
         \A e \in GeminiFailures :
            e.cause # exc.cause =>
               SubSeq(shown, Len(shown) - 1, Len(shown)) # process_error_shown(process_exception(e))
    /\ (script = "ATS.py" /\ pc = "done" /\ ats.exc.cause \in ServiceCauses) =>
         /\ \A e \in InvokeFailures :
               (e.cause \in ServiceCauses /\ e.cause # ats.exc.cause) =>
                  ats.response # gemini_error_message(e.msg)
         /\ ats.response = "API Quota Exceeded" => ats.exc.cause = "quota"
         /\ ats.response = "API Key Error" => ats.exc.cause = "bad_key"

\* C14's case: the generation service failed on an exhausted quota and the
\* handler of youtube.py has shown its message
C14_Witness == ServiceFailed /\ exc.cause = "quota" /\ calls.llm = 1

\* the remediation hints the handlers show under an error
Hints ==
    {"info: use manual transcript", "markdown: solutions to try", "info: check quotas",
     "info: check API key", "markdown: how to fix"}

\* an error with its hint, or the warning of a retry, has been shown
FailureReported == \E i \in DOMAIN shown : shown[i] \in Hints \cup {"warning: IP blocked. Retrying..."}

\* the request for the proxy list raised or was answered with an error status
ProxyListFailed ==
    calls.get_free_proxies > 0 /\ (proxy_response.raised \/ proxy_response.status_code # 200)

\* C15 (as claimed): when a remote call of the run has failed (the captioning
\* service, the embedding or generation service, or the request for the proxy
\* list), the run does not end without the failure being reported to the user.
C15_UpstreamFailuresReported ==
    (YtRun /\ pc = "done" /\ (exc # NoExc \/ attempt > 0 \/ ProxyListFailed)) => FailureReported

\* the step calls the captioning service
CallsService == calls'.get_transcript = calls.get_transcript + 1

\* C16: in a run of youtube.py the captioning service is called at most
\* max_attempts times (retry_attempts, 1 to 5); a call after the first is
\* made only from the retry loop and only when the call before it failed
\* with an error other than "transcripts disabled" that the code classifies
\* as IP blocking; once the loop is left, by a transcript or by an error, the
\* service is not called again in the run.
C16_BoundedRetry ==
    [][YtRun =>
         /\ calls'.get_transcript <= retry_attempts'
         /\ CallsService => pc = "attempt"
         /\ (CallsService /\ calls.get_transcript >= 1) =>
              /\ exc.type \notin {"none", "TranscriptsDisabled"}
              /\ IsBlockedMsg(exc.msg)
              /\ attempt = calls.get_transcript
         /\ (pc \in {"return", "except"}) => pc' # "attempt"
         /\ (pc \notin {"attempt", "done"}) => calls'.get_transcript = calls.get_transcript]_vars

\* C16's case: the fifth and last call of a run with max_attempts = 5, made
\* after four failures classified as IP blocking
C16_Witness ==
    /\ YtRun /\ retry_attempts = MaxRetry /\ calls.get_transcript = MaxRetry
    /\ attempt = MaxRetry - 1 /\ pc = "return"

\* get_transcript_with_retry has returned or raised
Terminated == YtRun /\ pc \in {"return", "except"}

\* C17: get_transcript_with_retry ends within max_attempts iterations, each
\* iteration that stays in the loop counting one attempt more; it ends with
\* the transcript of its only successful call, or TranscriptsDisabled, or the
\* "YouTube is blocking requests from this IP" error after exactly
\* max_attempts failures classified as blocking, or the error of the service
\* re-raised as it was when it is not classified as blocking; the "Failed to
\* retrieve transcript after multiple attempts." error is never raised, and
\* the backoff sleeps are one fewer than the calls: none follows the last.
C17_RetryOutcomes ==
    [][YtRun =>
         /\ (pc = "attempt" /\ pc' = "attempt") =>
              (attempt' = attempt + 1 /\ attempt' < retry_attempts)
         /\ pc' = "attempt" => attempt' < retry_attempts' /\ calls'.backoff_sleep = attempt'
         /\ exc'.msg # MsgFailedAfterAttempts
         /\ (pc = "attempt" /\ Terminated') =>
              /\ calls'.get_transcript = attempt' + 1
              /\ calls'.backoff_sleep = calls'.get_transcript - 1
              /\ pc' = "return" => transcript_list' \in CaptionTracks
              /\ pc' = "except" =>
                   \/ exc'.type = "TranscriptsDisabled" /\ exc'.msg = MsgDisabledForVideo
                   \/ /\ exc'.msg = MsgBlockingThisIp
                      /\ calls'.get_transcript = retry_attempts
                   \/ /\ exc' \in CaptionFailures
                      /\ exc'.type # "TranscriptsDisabled"
                      /\ ~IsBlockedMsg(exc'.msg)]_vars

\* C17's case: the function raised the blocking error after three attempts
\* of three, having slept twice
C17_Witness ==
    /\ Terminated /\ pc = "except" /\ retry_attempts = 3
    /\ exc.msg = MsgBlockingThisIp /\ calls.get_transcript = 3 /\ calls.backoff_sleep = 2

\* get_transcript_with_retry was left by an exception in this run
AcquisitionRaised ==
    /\ calls.get_transcript >= 1
    /\ \/ exc.type = "TranscriptsDisabled"
       \/ exc.msg = MsgBlockingThisIp
       \/ exc \in CaptionFailures /\ ~IsBlockedMsg(exc.msg)

\* the transcript is the one entered or fetched in this run
ObtainedThisRun ==
    \/ /\ input_method = "Manual Transcript"
       /\ transcript_text = manual_transcript /\ Strip(manual_transcript) # <<>>
    \/ /\ input_method = "YouTube URL"
       /\ calls.get_transcript >= 1 /\ exc.type \notin {"TranscriptsDisabled"}
       /\ transcript_text = Join(<<" ">>, transcript_list)

AnswerShown == {"write: answer", "text: transcript preview"} \cap Range(shown) # {}

\* C18: in a run of youtube.py process_transcript_and_answer is invoked at
\* most once (one splitter, one index, one retrieval, one generation), and
\* only with a non-empty question and a non-empty transcript entered or
\* fetched in that run; after an acquisition failure or an input error
\* transcript_text is unset, the function is not invoked and neither the
\* answer nor the transcript preview is shown; they are shown only after the
\* generation of that run.
C18_ProcessInvokedAtMostOnce ==
    YtRun =>
        /\ calls.splitter <= 1 /\ calls.index_build <= 1
        /\ calls.index_query <= 1 /\ calls.llm <= 1
        /\ calls.embedder + calls.index_build + calls.index_query + calls.llm > 0
             => calls.splitter = 1
        /\ calls.splitter = 1 =>
             Truthy(question) /\ Truthy(transcript_text) /\ ObtainedThisRun
        /\ (AcquisitionRaised \/ InputError) =>
             transcript_text = NoneVal /\ calls.splitter = 0 /\ ~AnswerShown
        /\ AnswerShown => calls.llm = 1 /\ flow = "Answered"

\* C18's case: a later run of the process, after a run whose fetch failed,
\* fetches a transcript and answers
C18_Witness ==
    /\ YtRun /\ runs > 1 /\ failed_fetches >= 1
    /\ input_method = "YouTube URL" /\ calls.splitter = 1
    /\ pc = "done" /\ flow = "Answered" /\ AnswerShown

ChatRun == script = "chatbot.py"

\* the input is "bye" in some letter case
SaysBye(typed) ==
    /\ Len(typed) = 3
    /\ typed[1] \in {"b", "B"} /\ typed[2] \in {"y", "Y"} /\ typed[3] \in {"e", "E"}

\* human, ai, human, ai, ...
Alternates(history) ==
    \A i \in DOMAIN history : history[i].type = (IF i % 2 = 1 THEN "human" ELSE "ai")

\* C19: at every prompt the history has even length and alternates
\* HumanMessage, AIMessage from a human message on; an input that is not
\* "bye" appends one HumanMessage with the input and then the model is
\* invoked, once, with the whole history ending in that message; its reply
\* is then appended as one AIMessage; an input that is "bye" in any letter
\* case ends the loop, the model not called and the history as it was.
C19_HistoryAlternates ==
    [][ChatRun =>
         /\ pc = "input" =>
              /\ Len(chat.chat_history) % 2 = 0 /\ Alternates(chat.chat_history)
              /\ Len(chat.chat_history) = 2 * calls.llm
         /\ (pc = "check" /\ ~SaysBye(chat.user_input)) =>
              /\ chat'.chat_history = Append(chat.chat_history, HumanMessage(chat.user_input))
              /\ calls' = calls /\ pc' = "invoke"
         /\ (pc = "check" /\ SaysBye(chat.user_input)) =>
              /\ chat'.chat_history = chat.chat_history
              /\ calls' = calls /\ pc' = "exit"
         /\ calls'.llm # calls.llm =>
              /\ pc = "invoke" /\ calls'.llm = calls.llm + 1
              /\ chat'.chat_history = chat.chat_history
              /\ chat'.invoked = chat.chat_history
              /\ Alternates(chat'.invoked)
              /\ chat'.invoked[Len(chat'.invoked)] = HumanMessage(chat.user_input)
         /\ pc = "reply" =>
              /\ chat'.chat_history = Append(chat.invoked, AIMessage(chat.result))
              /\ pc' = "input"
         /\ pc \in {"exit", "crashed"} => chat' = chat]_vars

\* C19's case: the prompt after two exchanges, the second begun by an input
\* that only resembles "bye"
C19_Witness ==
    /\ ChatRun /\ pc = "input" /\ Len(chat.chat_history) = 4
    /\ chat.chat_history[3] = HumanMessage(<<"b","y","e"," ">>)

AtsRun == script = "ATS.py"

TokenResourceExhausted == <<"R","e","s","o","u","r","c","e","E","x","h","a","u","s","t","e","d">>

TokenInvalidArgument == <<"I","n","v","a","l","i","d","A","r","g","u","m","e","n","t">>

TokenPermissionDenied == <<"P","e","r","m","i","s","s","i","o","n","D","e","n","i","e","d">>

\* an analysis button was pressed with a file, a job description and PDF data
AnalysisAsked ==
    /\ ats.pressed \in {"submit1", "submit3"}
    /\ ats.uploaded_file # NoFile
    /\ Strip(ats.input_text) # <<>>
    /\ ats.pdf_data # NoPdf
    /\ ats.pdf_data = input_pdf_setup(ats.cloud, ats.uploaded_file)

\* C20: in ATS.py get_gemini_response is entered, and the model invoked for
\* an analysis, only when an analysis button was pressed, a file is
\* uploaded, the job description is not blank and input_pdf_setup returned
\* data; the call always returns and its result is written: for a failure of
\* the model the quota message when the error text contains
\* "ResourceExhausted", otherwise the key message when it contains
\* "InvalidArgument" or "PermissionDenied", otherwise the unexpected-error
\* message with the text.
C20_AnalysisGuardAndMessages ==
    [][AtsRun =>
         /\ (pc = "get_gemini_response" \/ ats.response # "none") => AnalysisAsked
         /\ (calls'.llm = calls.llm + 1 /\ pc # "test_button") =>
              pc = "get_gemini_response" /\ AnalysisAsked
         /\ pc = "get_gemini_response" =>
              /\ pc' = "done" /\ calls'.llm = calls.llm + 1
              /\ ats'.response # "none"
              /\ shown' = shown \o <<"subheader: Analysis", "write: response">>
              /\ ats'.exc # NoExc =>
                   ats'.response =
                      IF Contains(TokenResourceExhausted, ats'.exc.msg)
                      THEN "API Quota Exceeded"
                      ELSE IF \/ Contains(TokenInvalidArgument, ats'.exc.msg)
                              \/ Contains(TokenPermissionDenied, ats'.exc.msg)
                      THEN "API Key Error"
                      ELSE "Unexpected Error: " \o Str(ats'.exc.msg)
              /\ ats'.exc = NoExc => ats'.response = "analysis"]_vars

\* C20's case: in the cloud, the percentage match was asked for and the
\* model failed for want of permission
C20_Witness ==
    /\ AtsRun /\ pc = "done" /\ ats.cloud /\ ats.pressed = "submit3"
    /\ ats.exc.msg = MsgPermissionDenied /\ ats.response = "API Key Error"

=============================================================================
